---- MODULE Spec2Model ----
(***************************************************************************)
(* A model of the IAMTheService AWS proxy (package http_server):           *)
(*   - the SigV4 codec of sigv4.go, over strings, with SHA-256 and         *)
(*     HMAC-SHA256 as free (collision-free) symbolic constructors;         *)
(*   - the key / service lookup providers of lookup_provider.go;           *)
(*   - ProxiedRequest (Hijack, DoProxiedRequest) of proxied_request.go;    *)
(*   - AWSProxy.handleRequest, one step per statement group, with the      *)
(*     provider's handler running between its call and its return;         *)
(*   - cloneBody / GetClonedBody of proxied_request.go: the copying        *)
(*     goroutine, its two pipes and their readers (SpecClone);             *)
(*   - AWSServiceRegistry and BaseAWSProvider.CanHandleRequest             *)
(*     (SpecRegistry);                                                     *)
(*   - S3Provider.ExtractOperationName and HandleRequest of                *)
(*     s3_provider.go (SpecClassify, and the dispatch step of Spec);       *)
(*   - the codec applied to signed, re-spaced and re-ordered requests      *)
(*     (SpecCodec); the cancellation of the inbound request in Spec and    *)
(*     SpecClone, the scheduling of the goroutine in SpecCloneLive and of  *)
(*     the goroutine with both consumers in SpecCloneDrained.              *)
(* Strings are TLA+ strings; Go's strings.* functions are re-implemented   *)
(* character by character so that parsing is what the code does.           *)
(***************************************************************************)
EXTENDS Integers, Sequences, FiniteSets, TLC

(***************************************************************************)
(* Go strings package                                                      *)
(***************************************************************************)

\* s[i:] and s[:i] of Go (0-based, half-open), for 0 <= i <= len(s)
From(s, i) == SubSeq(s, i + 1, Len(s))

Upto(s, i) == SubSeq(s, 1, i)

\* strings.HasPrefix
HasPrefix(s, p) == Len(s) >= Len(p) /\ Upto(s, Len(p)) = p

\* strings.HasSuffix
HasSuffix(s, p) == Len(s) >= Len(p) /\ From(s, Len(s) - Len(p)) = p

\* strings.Index: the 0-based offset of the first sep in s, or -1
Index(s, sep) ==
  LET hits == {i \in 0..(Len(s) - Len(sep)) : SubSeq(s, i + 1, i + Len(sep)) = sep}
  IN IF hits = {} THEN -1 ELSE CHOOSE i \in hits : \A j \in hits : i <= j

\* strings.Split(s, sep) for a non-empty sep: Split("", sep) is <<"">>, and two
\* adjacent separators give an empty string between them
RECURSIVE Split(_, _)
Split(s, sep) ==
  LET i == Index(s, sep)
  IN IF i < 0 THEN <<s>>
     ELSE <<Upto(s, i)>> \o Split(From(s, i + Len(sep)), sep)

\* strings.SplitN(s, sep, 2)
SplitN2(s, sep) ==
  LET i == Index(s, sep)
  IN IF i < 0 THEN <<s>> ELSE <<Upto(s, i), From(s, i + Len(sep))>>

\* strings.ReplaceAll(s, old, new) for a non-empty old
RECURSIVE ReplaceAll(_, _, _)
ReplaceAll(s, old, new) ==
  LET i == Index(s, old)
  IN IF i < 0 THEN s
     ELSE Upto(s, i) \o new \o ReplaceAll(From(s, i + Len(old)), old, new)

\* strings.Join
RECURSIVE Join(_, _)
Join(ss, sep) ==
  IF Len(ss) = 0 THEN ""
  ELSE IF Len(ss) = 1 THEN ss[1]
  ELSE ss[1] \o sep \o Join(Tail(ss), sep)

\* strings.TrimSpace (spaces, tabs and line breaks at both ends)
IsSpace(c) == c \in {" ", "\t", "\n", "\r"}

RECURSIVE TrimLeft(_)
TrimLeft(s) ==
  IF Len(s) > 0 /\ IsSpace(Upto(s, 1)) THEN TrimLeft(From(s, 1)) ELSE s

RECURSIVE TrimRight(_)
TrimRight(s) ==
  IF Len(s) > 0 /\ IsSpace(From(s, Len(s) - 1))
  THEN TrimRight(Upto(s, Len(s) - 1)) ELSE s

TrimSpace(s) == TrimRight(TrimLeft(s))

\* The bytes the model's strings are made of, in ascending byte order
ByteOrder ==
  "\t\n\r %&,-./0123456789:;=ABCDEFGHIJKLMNOPQRSTUVWXYZ[]_abcdefghijklmnopqrstuvwxyz|"

Bytes == {SubSeq(ByteOrder, i, i) : i \in 1..Len(ByteOrder)}

\* the position of each byte in that order
RankTable == [c \in Bytes |-> Index(ByteOrder, c)]

Rank(c) == IF c \in Bytes THEN RankTable[c] ELSE -1

\* strings.ToLower
LowerTable ==
  [c \in Bytes |->
     LET r == Index(ByteOrder, c)
         d == Index(ByteOrder, "a") - Index(ByteOrder, "A")
     IN IF r >= Index(ByteOrder, "A") /\ r <= Index(ByteOrder, "Z")
        THEN SubSeq(ByteOrder, r + 1 + d, r + 1 + d)
        ELSE c]

LowerChar(c) == IF c \in Bytes THEN LowerTable[c] ELSE c

RECURSIVE ToLower(_)
ToLower(s) ==
  IF Len(s) = 0 THEN "" ELSE LowerChar(Upto(s, 1)) \o ToLower(From(s, 1))

\* a < b in Go's string order (bytewise)
RECURSIVE StrLess(_, _)
StrLess(a, b) ==
  IF Len(b) = 0 THEN FALSE
  ELSE IF Len(a) = 0 THEN TRUE
  ELSE LET x == Rank(Upto(a, 1))
           y == Rank(Upto(b, 1))
       IN IF x # y THEN x < y ELSE StrLess(From(a, 1), From(b, 1))

\* the strings left in the order they are in
KeepOrder(ss) == ss

\* sort.Strings
RECURSIVE Insert(_, _)
Insert(x, ss) ==
  IF Len(ss) = 0 THEN <<x>>
  ELSE IF StrLess(ss[1], x) THEN <<ss[1]>> \o Insert(x, Tail(ss))
  ELSE <<x>> \o ss

RECURSIVE SortStrings(_)
SortStrings(ss) ==
  IF Len(ss) = 0 THEN <<>> ELSE Insert(ss[1], SortStrings(Tail(ss)))

(***************************************************************************)
(* net/http request values                                                 *)
(***************************************************************************)

\* http.Header.Get: header names are case-insensitive; an absent header is ""
HeaderGet(h, name) ==
  IF ToLower(name) \in DOMAIN h THEN h[ToLower(name)] ELSE ""

\* url.URL.EscapedPath, for the two bytes of the model's paths that are escaped
EscapedPath(path) == ReplaceAll(ReplaceAll(path, "%", "%25"), " ", "%20")

\* url.Values.Encode of URL.Query(): the parameters "k=v" sorted by key
QueryPair(p) ==
  LET kv == SplitN2(p, "=")
  IN kv[1] \o "=" \o (IF Len(kv) = 2 THEN kv[2] ELSE "")

QueryEncode(raw) ==
  IF raw = "" THEN ""
  ELSE LET ps == Split(raw, "&")
       IN Join(SortStrings([i \in 1..Len(ps) |-> QueryPair(ps[i])]), "&")

(***************************************************************************)
(* sigv4.go                                                                *)
(***************************************************************************)

\* crypto/sha256 and crypto/hmac as free constructors: equal digests only for
\* equal inputs
getSHA256(data) == "S[" \o data \o "]"

getHMAC(key, data) == "H[" \o key \o "|" \o data \o "]"

\* fmt.Sprintf("%x", digest): the text form of a digest
Hex(digest) == "x" \o digest

\* lo.Find(items, HasPrefix "SignedHeaders"): the first such item, or ""
RECURSIVE FindSignedHeaders(_)
FindSignedHeaders(items) ==
  IF Len(items) = 0 THEN ""
  ELSE IF HasPrefix(items[1], "SignedHeaders") THEN items[1]
  ELSE FindSignedHeaders(Tail(items))

\* the signed header names getCanonicalRequest re-extracts from the raw header
CanonicalSignedHeaders(request) ==
  LET signedHeadersList ==
        FindSignedHeaders(Split(HeaderGet(request.Header, "Authorization"), ", "))
  IN SortStrings(Split(ReplaceAll(ReplaceAll(signedHeadersList, "SignedHeaders=", ""),
                                  ",", ""), ";"))

CanonicalHeaderLine(request, header) ==
  IF header = "host"
  THEN ToLower(header) \o ":" \o TrimSpace(request.Host) \o "\n"
  ELSE ToLower(header) \o ":" \o TrimSpace(HeaderGet(request.Header, header)) \o "\n"

RECURSIVE CanonicalHeaderLines(_, _)
CanonicalHeaderLines(request, hs) ==
  IF Len(hs) = 0 THEN ""
  ELSE CanonicalHeaderLine(request, hs[1]) \o CanonicalHeaderLines(request, Tail(hs))

getCanonicalRequest(request) ==
  LET signedHeaders == CanonicalSignedHeaders(request)
      shaHeader == HeaderGet(request.Header, "x-amz-content-sha256")
  IN request.Method \o "\n"
     \o EscapedPath(request.URL.Path) \o "\n"
     \o QueryEncode(request.URL.RawQuery) \o "\n"
     \o CanonicalHeaderLines(request, signedHeaders)
     \o "\n"
     \o Join(signedHeaders, ";") \o "\n"
     \o (IF shaHeader = "" THEN "UNSIGNED-PAYLOAD" ELSE shaHeader)

\* request.Header.Get("X-Amz-Date")[:8] panics (slice bounds out of range) on a
\* value shorter than 8 bytes
DateSlicePanics(request) == Len(HeaderGet(request.Header, "X-Amz-Date")) < 8

getStringToSign(request, canonicalRequest, region, service) ==
  LET date == HeaderGet(request.Header, "X-Amz-Date")
      scope == Upto(date, 8) \o "/" \o region \o "/" \o service \o "/aws4_request"
  IN "AWS4-HMAC-SHA256" \o "\n" \o date \o "\n" \o scope \o "\n"
     \o Hex(getSHA256(canonicalRequest))

getSigningKey(request, password, region, service) ==
  LET dateKey == getHMAC("AWS4" \o password,
                         Upto(HeaderGet(request.Header, "X-Amz-Date"), 8))
      dateRegionKey == getHMAC(dateKey, region)
      dateRegionServiceKey == getHMAC(dateRegionKey, service)
  IN getHMAC(dateRegionServiceKey, "aws4_request")

generateSigV4(r, parsedHeader, keySecret) ==
  LET canonicalRequest == getCanonicalRequest(r)
      stringToSign == getStringToSign(r, canonicalRequest,
                                      parsedHeader.Credential.Region,
                                      parsedHeader.Credential.Service)
      signingKey == getSigningKey(r, keySecret, parsedHeader.Credential.Region,
                                  parsedHeader.Credential.Service)
  IN Hex(getHMAC(signingKey, stringToSign))

\* the zero value of AWSAuthHeader
ZeroAuthHeader ==
  [Credential |-> [KeyID |-> "", Date |-> "", Region |-> "", Service |-> "",
                   Request |-> ""],
   SignedHeaders |-> <<>>,
   Signature |-> ""]

\* one iteration of parseAuthHeader's loop; acc is [panic, h]
ParsePart(acc, part0) ==
  IF acc.panic THEN acc
  ELSE IF Len(part0) = 0 THEN [acc EXCEPT !.panic = TRUE]  \* part[len(part)-1]
  ELSE
    LET part == IF HasSuffix(part0, ",") THEN Upto(part0, Len(part0) - 1) ELSE part0
        keyValue == SplitN2(part, "=")
    IN IF Len(keyValue) # 2 THEN acc
       ELSE LET key == keyValue[1]
                value == keyValue[2]
            IN IF key = "Credential"
               THEN LET credentialParts == Split(value, "/")
                    IN IF Len(credentialParts) < 5
                       THEN [acc EXCEPT !.panic = TRUE]  \* index out of range
                       ELSE [acc EXCEPT !.h.Credential =
                               [KeyID |-> credentialParts[1],
                                Date |-> credentialParts[2],
                                Region |-> credentialParts[3],
                                Service |-> credentialParts[4],
                                Request |-> credentialParts[5]]]
               ELSE IF key = "SignedHeaders"
               THEN [acc EXCEPT !.h.SignedHeaders = Split(value, ";")]
               ELSE IF key = "Signature"
               THEN [acc EXCEPT !.h.Signature = value]
               ELSE acc

RECURSIVE ParseParts(_, _)
ParseParts(acc, parts) ==
  IF Len(parts) = 0 THEN acc
  ELSE ParseParts(ParsePart(acc, parts[1]), Tail(parts))

\* parseAuthHeader: [panic |-> a runtime panic was raised, h |-> the AWSAuthHeader]
parseAuthHeader(header) ==
  ParseParts([panic |-> FALSE, h |-> ZeroAuthHeader], Split(header, " "))

(***************************************************************************)
(* lookup_provider.go                                                      *)
(***************************************************************************)

\* MapLookupProvider.Lookup / EnvJSONLookupProvider.Lookup: the stored value, or
\* the zero value of TVal, and in both cases a nil error
MapLookup(m, key, zero) ==
  IF key \in DOMAIN m THEN [val |-> m[key], err |-> ""]
  ELSE [val |-> zero, err |-> ""]

\* the key id -> secret map the proxy is constructed with
KeyStore == [k \in {"AK1"} |-> "sec1"]

\* the nil AWSServiceProvider
NilProvider == "nil"

\* the inbound host -> service provider map the proxy is constructed with
ServiceStore == [h \in {"s3.local"} |-> "s3"]

\* AWSProxy.KeyLookupFunc: a LookupFunc backed by the map, or one whose backend
\* fails (the error a LookupFunc may return)
KeyLookupFunc(key) ==
  {MapLookup(KeyStore, key, ""), [val |-> "", err |-> "lookup: backend unavailable"]}

\* AWSProxy.ServiceLookupFunc, likewise
ServiceLookupFunc(host) ==
  {MapLookup(ServiceStore, host, NilProvider),
   [val |-> NilProvider, err |-> "lookup: backend unavailable"]}

(***************************************************************************)
(* s3_provider.go: ExtractOperationName                                    *)
(***************************************************************************)

\* strings.Count(s, sep) for a one-byte sep
Count(s, sep) ==
  Cardinality({i \in 1..Len(s) : SubSeq(s, i, i) = sep})

\* what the regexp `.*` can match: any bytes but a line break
NoLineBreak(s) == Index(s, "\n") < 0

\* line 36-37, `^/[^/]+/?$`: a slash, one or more bytes that are no slash, and
\* at most one slash more
BucketPattern(path) ==
  LET rest == From(path, 1)
      name == IF HasSuffix(rest, "/") THEN Upto(rest, Len(rest) - 1) ELSE rest
  IN /\ HasPrefix(path, "/")
     /\ Len(name) >= 1
     /\ Index(name, "/") < 0

\* the object pattern without its last `[^/]`: a key may end in a slash
ObjectPatternAnyKey(path) ==
  LET rest == From(path, 1)
      i == Index(rest, "/")
  IN HasPrefix(path, "/") /\ i >= 1 /\ Len(From(rest, i + 1)) >= 1

\* lines 32-34, `^/[^/]+/.*[^/]$`: a first segment, a slash, then `.*` and one last
\* byte that is no slash
ObjectPattern(path) ==
  LET rest == From(path, 1)
      i == Index(rest, "/")
      key == From(rest, i + 1)
  IN /\ HasPrefix(path, "/")
     /\ i >= 1
     /\ Len(key) >= 1
     /\ ~HasSuffix(key, "/")
     /\ NoLineBreak(Upto(key, Len(key) - 1))

\* line 35, `^/[^/]+/?(\?.+)?$`: the bucket pattern, then optionally a question
\* mark and one or more bytes
ListPattern(path) ==
  \/ BucketPattern(path)
  \/ \E i \in 1..(Len(path) - 1) :
       /\ SubSeq(path, i, i) = "?"
       /\ BucketPattern(Upto(path, i - 1))
       /\ NoLineBreak(From(path, i))

\* lines 32-37: the keys of pathPatterns
PathPatternOperations ==
  {"GetObject", "PutObject", "DeleteObject", "ListObjects", "CreateBucket",
   "DeleteBucket"}

\* line 71: pattern.MatchString(path) for the pattern stored under operation
PathPatternMatches(operation, path) ==
  CASE operation \in {"GetObject", "PutObject", "DeleteObject"} -> ObjectPattern(path)
    [] operation = "ListObjects" -> ListPattern(path)
    [] operation \in {"CreateBucket", "DeleteBucket"} -> BucketPattern(path)
    [] OTHER -> FALSE

\* the bytes a query of the model writes as %XX, by their two hex digits (no
\* other pair of hex digits occurs in the model's queries)
EscapedBytes ==
  [x \in {"20", "26", "2D", "3D"} |->
     CASE x = "20" -> " " [] x = "26" -> "&" [] x = "2D" -> "-" [] x = "3D" -> "="]

\* url.QueryUnescape: "+" is a space, %XX the byte XX; a "%" that two hex digits
\* do not follow is an error
RECURSIVE QueryUnescape(_)
QueryUnescape(s) ==
  IF s = "" THEN [ok |-> TRUE, val |-> ""]
  ELSE LET c == Upto(s, 1)
           x == SubSeq(s, 2, 3)
           rest == QueryUnescape(From(s, IF c = "%" THEN 3 ELSE 1))
       IN IF c = "%" /\ (Len(s) < 3 \/ x \notin DOMAIN EscapedBytes)
          THEN [ok |-> FALSE, val |-> ""]
          ELSE [ok |-> rest.ok,
                val |-> (CASE c = "%" -> EscapedBytes[x]
                           [] c = "+" -> " "
                           [] OTHER -> c) \o rest.val]

\* line 53, request.Request.URL.Query(): the parameter names of the raw query.
\* url.ParseQuery skips an empty pair, a pair holding a semicolon and a pair whose
\* name or value does not unescape; Query() drops the error.
QueryKeys(raw) ==
  IF raw = "" THEN {}
  ELSE LET ps == Split(raw, "&")
           kv(i) == SplitN2(ps[i], "=")
       IN {QueryUnescape(kv(i)[1]).val :
             i \in {j \in 1..Len(ps) :
                      /\ ps[j] # ""
                      /\ Index(ps[j], ";") < 0
                      /\ QueryUnescape(kv(j)[1]).ok
                      /\ Len(kv(j)) = 2 => QueryUnescape(kv(j)[2]).ok}}

\* the query rules with uploads looked at first
QueryOperationUploadsFirst(keys, method) ==
  IF "uploads" \in keys
  THEN (IF method = "POST" THEN "CreateMultipartUpload" ELSE "ListMultipartUploads")
  ELSE IF "list-type" \in keys THEN "ListObjectsV2"
  ELSE ""

\* lines 56-67: the operation the query parameters name ("": none)
QueryOperation(keys, method) ==
  IF "list-type" \in keys THEN "ListObjectsV2"
  ELSE IF "uploads" \in keys
  THEN (IF method = "POST" THEN "CreateMultipartUpload" ELSE "ListMultipartUploads")
  ELSE ""

\* an iteration that returns the name of the pattern it is at, when that pattern
\* belongs to the method
PatternOperationByKey(operation, method, path) ==
  IF \/ method = "GET" /\ operation \in {"GetObject", "ListObjects"}
     \/ method = "PUT" /\ operation \in {"PutObject", "CreateBucket"}
     \/ method = "DELETE" /\ operation \in {"DeleteObject", "DeleteBucket"}
  THEN operation
  ELSE ""

\* lines 72-94: what one iteration of the loop returns for a pattern that
\* matched ("": it returns nothing and the loop goes on)
PatternOperation(operation, method, path) ==
  CASE method = "GET" /\ operation \in {"GetObject", "ListObjects"} ->
         (IF HasSuffix(path, "/") \/ path = "/" THEN "ListObjects" ELSE "GetObject")
    [] method = "PUT" /\ operation \in {"PutObject", "CreateBucket"} ->
         (IF Count(path, "/") <= 1 THEN "CreateBucket" ELSE "PutObject")
    [] method = "DELETE" /\ operation \in {"DeleteObject", "DeleteBucket"} ->
         (IF Count(path, "/") <= 1 THEN "DeleteBucket" ELSE "DeleteObject")
    [] OTHER -> ""

\* ExtractOperationName: the names it can return. The loop ranges over a Go map,
\* whose iteration order is not fixed: the first iteration that returns decides.
ExtractOperationNames(method, path, rawQuery) ==
  LET q == QueryOperation(QueryKeys(rawQuery), method)
      hits == {PatternOperation(o, method, path) :
                 o \in {x \in PathPatternOperations : PathPatternMatches(x, path)}}
              \ {""}
  IN IF q # "" THEN {q}
     ELSE IF hits = {} THEN {"Unknown"}
     ELSE hits

(***************************************************************************)
(* Bounds of the model                                                     *)
(***************************************************************************)

\* calls of DoProxiedRequest one handler makes
MaxForwards == 2

\* writes a handler makes to a hijacked response writer
MaxProviderWrites == 2

\* calls of Hijack one handler makes
MaxHijackCalls == 2

(***************************************************************************)
(* Inbound requests                                                        *)
(***************************************************************************)

Hosts == {"s3.local", "db.local"}

GoodDate == "20130524T000000Z"

HeaderMap(auth, date) ==
  LET names == {n \in {"authorization", "x-amz-date"} :
                  IF n = "authorization" THEN auth # "-" ELSE date # "-"}
  IN [h \in names |-> IF h = "authorization" THEN auth ELSE date]

\* an *http.Request as the server hands it to handleRequest ("-": header absent)
Request(method, host, path, auth, date) ==
  [Method |-> method, Host |-> host,
   URL |-> [Host |-> "", Path |-> path, RawQuery |-> ""],
   Header |-> HeaderMap(auth, date),
   Body |-> <<"p1", "p2">>]

AuthPrefix(cred) ==
  "AWS4-HMAC-SHA256 Credential=" \o cred \o ", SignedHeaders=host;x-amz-date, "

CredentialOf(keyID) == keyID \o "/20130524/r1/s3/aws4_request"

\* a request as an SDK client signs it for keyID with secret: the signature is the
\* codec's, computed over the request the client is about to send
ClientSigned(method, host, path, keyID, secret) ==
  LET auth0 == AuthPrefix(CredentialOf(keyID)) \o "Signature="
      r0 == Request(method, host, path, auth0, GoodDate)
      sig == generateSigV4(r0, parseAuthHeader(auth0 \o "0").h, secret)
  IN Request(method, host, path, auth0 \o sig, GoodDate)

\* requests signed by a client, some of them changed on the way (path rewritten)
SignedRequests ==
  {ClientSigned("GET", h, "/b/k", k, sec) :
      h \in Hosts, k \in {"AK1", "AK9"}, sec \in {"sec1", "sec2", ""}}
  \cup {[ClientSigned("GET", "s3.local", "/b/k", "AK1", "sec1")
           EXCEPT !.URL.Path = "/b/other"]}

\* Authorization values that are not a complete SigV4 header
MalformedAuths ==
  {"-", "",
   "AWS4-HMAC-SHA256 SignedHeaders=host;x-amz-date, Signature=0",
   "AWS4-HMAC-SHA256 Credential=AK1/20130524/r1, SignedHeaders=host, Signature=0",
   "AWS4-HMAC-SHA256 Credential=AK1/20130524/r1/s3/aws4_request/x, SignedHeaders=host, Signature=0",
   "AWS4-HMAC-SHA256 Credential=AK1/20130524/r1/s3/aws4_request, SignedHeaders=host",
   "AWS4-HMAC-SHA256 Credential=AK1/20130524/r1/s3/aws4_request, Signature=0",
   "Basic dXNlcg"}

MalformedRequests ==
  {Request("GET", "s3.local", "/b/k", a, GoodDate) : a \in MalformedAuths}

\* well-formed Authorization, X-Amz-Date absent, empty or shorter than 8 bytes
BadDateRequests ==
  {Request("GET", "s3.local", "/b/k",
           AuthPrefix(CredentialOf("AK1")) \o "Signature=0", d) :
      d \in {"-", "", "2013"}}

InboundRequests == SignedRequests \cup MalformedRequests \cup BadDateRequests

\* what an origin, or a handler answering by itself, may return
\* (read: how many chunks of Body have been read from the body stream)
NilResponse ==
  [isNil |-> TRUE, StatusCode |-> 0, Header |-> <<>>, Body |-> <<>>, read |-> 0]

Responses ==
  {[isNil |-> FALSE, StatusCode |-> 200,
    Header |-> [h \in {"Etag"} |-> <<"e1">>], Body |-> <<"b1", "b2">>, read |-> 0],
   [isNil |-> FALSE, StatusCode |-> 404, Header |-> <<>>, Body |-> <<>>, read |-> 0]}

\* the hosts a handler forwards to: the default origin of BaseAWSProvider
\* (serviceName + ".amazonaws.com") and, for a registered handler, any host
DefaultOrigin(serviceName) == serviceName \o ".amazonaws.com"

TargetHosts == {DefaultOrigin("s3"), "s3.local"}

(***************************************************************************)
(* State                                                                   *)
(***************************************************************************)

VARIABLES
  pc,            \* where handleRequest is
  req,           \* r *http.Request (DoProxiedRequest rewrites it in place)
  inbound,       \* the request as it arrived (never changed; for the properties)
  parsedHeader,  \* handleRequest's parsedHeader
  keySecret,     \* handleRequest's keySecret
  pr,            \* the ProxiedRequest handed to the provider
  serviceProvider, \* handleRequest's serviceProvider
  res,           \* the handler's returned *http.Response
  herr,          \* the handler's returned error ("" is nil)
  ret,           \* what handleRequest returned
  sink,          \* w http.ResponseWriter
  sinkLog,       \* every call made on w, in order
  handle,        \* the handler holds the response writer Hijack returned
  hcalls,        \* the handler's calls so far: [hijack, forward, write], and the
                 \* response writers its Hijack calls returned
  last,          \* the result of the handler's last DoProxiedRequest
  sent,          \* the requests http.DefaultClient.Do delivered to an origin
  handlerKind,   \* which HandleRequest runs: BaseAWSProvider's or a registered handler
  lookups,       \* the lookups and provider calls handleRequest made, in order
  operationHandlers, \* S3Provider.operationHandlers: the operations with a handler
  orig,          \* cloneBody's orig: the body stream of the request
  copier,        \* the goroutine of cloneBody
  pipes,         \* the two io.Pipes of cloneBody (1: pw1/pr1, 2: pw2/pr2)
  readers,       \* what the consumer of each pipe reader has received
  bodyRef,       \* r.Request.Body and the reader GetClonedBody returned
  providers,     \* AWSServiceRegistry.providers
  registered,    \* every provider given to RegisterProvider, in order
  found,         \* the result of GetProviderForRequest on the registry as it is
  classified,    \* a request handed to ExtractOperationName, and the name returned
  codec,         \* a call of the SigV4 codec: its arguments and its result
  cancelled      \* the inbound request's context (r.Context()) is cancelled

\* the variables of handleRequest and of the handler it calls
engineVars ==
  <<pc, req, inbound, parsedHeader, keySecret, pr, serviceProvider, res, herr,
    ret, sink, sinkLog, handle, hcalls, last, sent, handlerKind, lookups,
    operationHandlers>>

\* the variables of cloneBody
cloneVars == <<orig, copier, pipes, readers, bodyRef>>

\* the variables of AWSServiceRegistry
registryVars == <<providers, registered, found>>

\* what handleRequest never touches
besideEngine == <<operationHandlers, cloneVars, registryVars, classified, codec, cancelled>>

vars == <<engineVars, cloneVars, registryVars, classified, codec, cancelled>>

\* the zero value of ProxiedRequest
ZeroProxiedRequest ==
  [OriginalHost |-> "", Region |-> "", KeyID |-> "", KeySecret |-> "",
   Service |-> "", XAMZDate |-> "", hijacked |-> FALSE,
   parsedHeader |-> ZeroAuthHeader]

NotReturned == [kind |-> "none", msg |-> "", cause |-> ""]

ReturnNil == [kind |-> "nil", msg |-> "", cause |-> ""]

\* fmt.Errorf(msg + ": %w", cause)
ReturnError(msg, cause) == [kind |-> "error", msg |-> msg, cause |-> cause]

\* a runtime panic unwinds handleRequest: it returns nothing
Panicked == [kind |-> "panic", msg |-> "", cause |-> ""]

\* a fresh http.ResponseWriter: nothing committed, an empty header map
NewSink ==
  [wroteHeader |-> FALSE, status |-> 0, sentHeader |-> <<>>, header |-> <<>>,
   body |-> <<>>]

\* a body stream: the bytes it will yield, how many it has yielded, the offset at
\* which a Read fails (-1: never), and whether it has been closed
BodyStream(data, failAt) ==
  [data |-> data, pos |-> 0, failAt |-> failAt, closed |-> FALSE]

\* cloneBody not called yet on the body stream o
CloneFresh(o) ==
  /\ orig = o
  /\ copier = [pc |-> "none", chunk |-> "", err |-> ""]
  /\ pipes = [k \in {1, 2} |-> [pending |-> "", werr |-> "", rclosed |-> FALSE]]
  /\ readers = [k \in {1, 2} |-> [data |-> "", end |-> "", reads |-> 0]]
  /\ bodyRef = [body |-> "orig", cloned |-> "none"]

\* an AWSServiceProvider of the registry: its ServiceName() and which instance it
\* is (two providers may carry one name)
Provider(name, id) == [name |-> name, id |-> id]

\* the nil AWSServiceProvider GetProviderForRequest returns with false
NoProvider == Provider("", 0)

\* no call of GetProviderForRequest made on the registry as it is
NotLookedUp ==
  [called |-> FALSE, ok |-> FALSE, provider |-> NoProvider,
   request |-> [Host |-> "", URLHost |-> ""]]

\* NewAWSServiceRegistry: an empty map
NewAWSServiceRegistry ==
  /\ providers = <<>>
  /\ registered = <<>>
  /\ found = NotLookedUp

\* no request handed to ExtractOperationName
NotClassified ==
  classified = [Method |-> "", Path |-> "", RawQuery |-> "", operation |-> ""]

\* the client is there: its connection is open, r.Context() is not done
NotCancelled == cancelled = FALSE

\* no call of the codec
NoCodecCall ==
  codec = [call |-> "", request |-> <<>>, signedWith |-> "", note |-> "",
           secret |-> "", done |-> FALSE, result |-> ""]

\* handleRequest's locals before its first statement
EngineFresh ==
  /\ parsedHeader = ZeroAuthHeader
  /\ keySecret = ""
  /\ pr = ZeroProxiedRequest
  /\ serviceProvider = NilProvider
  /\ res = NilResponse
  /\ herr = ""
  /\ ret = NotReturned
  /\ sink = NewSink
  /\ sinkLog = <<>>
  /\ handle = FALSE
  /\ hcalls = [hijack |-> 0, forward |-> 0, write |-> 0, writers |-> 0]
  /\ last = [res |-> NilResponse, err |-> ""]
  /\ sent = <<>>
  /\ handlerKind = "none"
  /\ lookups = <<>>

\* no request is being handled
EngineIdle ==
  /\ pc = "Idle"
  /\ req = Request("", "", "", "-", "-")
  /\ inbound = req
  /\ operationHandlers = {}
  /\ EngineFresh

\* the operation handlers a deployment registers with its S3Provider
\* (RegisterOperationHandler) before it serves
HandlerSets == {{}, {"GetObject"}, {"PutObject"}}

Init ==
  /\ pc = "Received"
  /\ req \in InboundRequests
  /\ inbound = req
  /\ operationHandlers \in HandlerSets
  /\ EngineFresh
  /\ CloneFresh(BodyStream("", -1))
  /\ NewAWSServiceRegistry
  /\ NotClassified
  /\ NoCodecCall
  /\ NotCancelled

(***************************************************************************)
(* http.ResponseWriter                                                     *)
(***************************************************************************)

\* w.WriteHeader(code): the first call commits the status and the header map as it
\* is now; later calls are ignored
SinkWriteHeader(w, code) ==
  IF w.wroteHeader THEN w
  ELSE [w EXCEPT !.wroteHeader = TRUE, !.status = code, !.sentHeader = w.header]

\* w.Header().Add(key, val) for every value of every key of h: changes the header
\* map, which reaches the client only if it is committed afterwards
SinkAddHeaders(w, h) ==
  [w EXCEPT !.header =
     [k \in (DOMAIN w.header) \cup (DOMAIN h) |->
        (IF k \in DOMAIN w.header THEN w.header[k] ELSE <<>>)
        \o (IF k \in DOMAIN h THEN h[k] ELSE <<>>)]]

\* w.Write(b): commits status 200 first if no status was written
SinkWrite(w, b) ==
  LET w1 == SinkWriteHeader(w, 200)
  IN [w1 EXCEPT !.body = Append(w1.body, b)]

\* one entry of the call log of w
LogEntry(by, op) == [by |-> by, op |-> op, hijacked |-> pr.hijacked]

(***************************************************************************)
(* AWSProxy.handleRequest                                                  *)
(***************************************************************************)

\* handleRequest returns (with an error, with nil, or by a panic)
Return(r) == pc' = "Done" /\ ret' = r

\* line 22, ctx := context.Background(): the context handleRequest hands to
\* KeyLookupFunc (27), ServiceLookupFunc (51) and HandleRequest (57), which
\* BaseAWSProvider.HandleRequest hands on to DoProxiedRequest and
\* http.NewRequestWithContext
EngineContext == "Background"

\* ctx.Done() is closed: the background context is never done, the context of the
\* inbound request is done once the request is cancelled
ContextDone(ctx) == IF ctx = "Background" THEN FALSE ELSE cancelled

\* the client goes away while handleRequest runs: r.Context() is cancelled.
\* handleRequest does not read r.Context().
CancelInbound ==
  /\ pc # "Done"
  /\ ~cancelled
  /\ cancelled' = TRUE
  /\ UNCHANGED <<engineVars, cloneVars, registryVars, classified, codec>>

\* line 24: parsedHeader := parseAuthHeader(r.Header.Get("Authorization"))
ParseHeader ==
  /\ pc = "Received"
  /\ LET ph == parseAuthHeader(HeaderGet(req.Header, "Authorization"))
     IN IF ph.panic
        THEN Return(Panicked) /\ UNCHANGED parsedHeader
        ELSE parsedHeader' = ph.h /\ pc' = "HeaderParsed" /\ UNCHANGED ret
  /\ UNCHANGED <<req, inbound, keySecret, pr, serviceProvider, res, herr, sink,
                 sinkLog, handle, hcalls, last, sent, handlerKind, lookups>>
  /\ UNCHANGED besideEngine

\* lines 26-31: keySecret, err := p.KeyLookupFunc(ctx, parsedHeader.Credential.KeyID)
LookupKey ==
  /\ pc = "HeaderParsed"
  /\ \E r \in KeyLookupFunc(parsedHeader.Credential.KeyID) :
       IF r.err # ""
       THEN Return(ReturnError("error looking up key", r.err)) /\ UNCHANGED keySecret
       ELSE keySecret' = r.val /\ pc' = "KeyResolved" /\ UNCHANGED ret
  /\ lookups' = Append(lookups, "key")
  /\ UNCHANGED <<req, inbound, parsedHeader, pr, serviceProvider, res, herr, sink,
                 sinkLog, handle, hcalls, last, sent, handlerKind>>
  /\ UNCHANGED besideEngine

\* a comparison that lets every signature through
SignatureMismatchNever(signature, declared) == FALSE

\* line 35: signature != parsedHeader.Signature
SignatureMismatch(signature, declared) == signature # declared

\* a ProxiedRequest that takes its OriginalHost from the URL, not from r.Host
NewProxiedRequestURLHost(r, h) ==
  [OriginalHost |-> r.URL.Host,
   Region |-> h.Credential.Region,
   KeyID |-> h.Credential.KeyID,
   KeySecret |-> "",
   Service |-> h.Credential.Service,
   XAMZDate |-> h.Credential.Date,
   hijacked |-> FALSE,
   parsedHeader |-> h]

\* lines 40-49: the ProxiedRequest literal (KeySecret is not among its fields)
NewProxiedRequest(r, h) ==
  [OriginalHost |-> r.Host,
   Region |-> h.Credential.Region,
   KeyID |-> h.Credential.KeyID,
   KeySecret |-> "",
   Service |-> h.Credential.Service,
   XAMZDate |-> h.Credential.Date,
   hijacked |-> FALSE,
   parsedHeader |-> h]

\* lines 33-49: recompute the signature, compare, build the ProxiedRequest
Verify ==
  /\ pc = "KeyResolved"
  /\ IF DateSlicePanics(req)
     THEN Return(Panicked) /\ UNCHANGED pr
     ELSE IF SignatureMismatch(generateSigV4(req, parsedHeader, keySecret),
                               parsedHeader.Signature)
     THEN Return(ReturnError("invalid signature", "")) /\ UNCHANGED pr
     ELSE pr' = NewProxiedRequest(req, parsedHeader) /\ pc' = "Verified"
          /\ UNCHANGED ret
  /\ UNCHANGED <<req, inbound, parsedHeader, keySecret, serviceProvider, res, herr,
                 sink, sinkLog, handle, hcalls, last, sent, handlerKind, lookups>>
  /\ UNCHANGED besideEngine

\* lines 51-55: serviceProvider, err := p.ServiceLookupFunc(ctx, r.Host)
ResolveProvider ==
  /\ pc = "Verified"
  /\ \E r \in ServiceLookupFunc(req.Host) :
       IF r.err # ""
       THEN Return(ReturnError("error looking up service provider", r.err))
            /\ UNCHANGED serviceProvider
       ELSE serviceProvider' = r.val /\ pc' = "ProviderResolved" /\ UNCHANGED ret
  /\ lookups' = Append(lookups, "service")
  /\ UNCHANGED <<req, inbound, parsedHeader, keySecret, pr, res, herr, sink,
                 sinkLog, handle, hcalls, last, sent, handlerKind>>
  /\ UNCHANGED besideEngine

\* a provider that never looks at its registered handlers
HandlerKindAlwaysDefault(operation, handlers) == "default"

\* S3Provider.HandleRequest, lines 107-112: the handler registered for the
\* operation if there is one, else BaseAWSProvider.HandleRequest
HandlerKindFor(operation, handlers) ==
  IF operation \in handlers THEN "registered" ELSE "default"

\* line 57: serviceProvider.HandleRequest(ctx, &proxiedRequest); a method call on
\* a nil interface value panics. S3Provider.HandleRequest (s3_provider.go
\* 102-113) names the operation and runs the handler registered for it, or its
\* default, BaseAWSProvider.HandleRequest.
Dispatch ==
  /\ pc = "ProviderResolved"
  /\ IF serviceProvider = NilProvider
     THEN Return(Panicked) /\ UNCHANGED <<handlerKind, lookups>>
     ELSE /\ pc' = "InHandler"
          /\ \E operation \in ExtractOperationNames(req.Method, req.URL.Path,
                                                    req.URL.RawQuery) :
               handlerKind' = HandlerKindFor(operation, operationHandlers)
          /\ lookups' = Append(lookups, "handler")
          /\ UNCHANGED ret
  /\ UNCHANGED <<req, inbound, parsedHeader, keySecret, pr, serviceProvider, res,
                 herr, sink, sinkLog, handle, hcalls, last, sent>>
  /\ UNCHANGED besideEngine

(***************************************************************************)
(* proxied_request.go: what a handler can do with its ProxiedRequest       *)
(***************************************************************************)

\* regexp `Signature=[^,]+`, ReplaceAllString(header, repl)
RECURSIVE ReplaceSignature(_, _)
ReplaceSignature(header, repl) ==
  LET i == Index(header, "Signature=")
      rest == From(header, i + Len("Signature="))
      j == Index(rest, ",")
      n == IF j < 0 THEN Len(rest) ELSE j
  IN IF i < 0 THEN header
     ELSE IF n = 0
     THEN Upto(header, i + Len("Signature=")) \o ReplaceSignature(rest, repl)
     ELSE Upto(header, i) \o repl \o ReplaceSignature(From(rest, n), repl)

\* lines 75-78 and 91: the Authorization value put on the outbound request. The
\* string ReplaceAllString returns is not assigned; originalAuthHeader is sent.
OutboundAuthorization(originalAuthHeader, signature) == originalAuthHeader

\* lines 66-91: the request DoProxiedRequest builds, from the request it has just
\* rewritten (r) and the signature it has just computed
OutboundRequest(r, signature) ==
  [Method |-> r.Method,
   Host |-> r.URL.Host,
   URL |-> r.URL,
   Header |-> [h \in (DOMAIN r.Header) \cup {"authorization"} |->
                 IF h = "authorization"
                 THEN OutboundAuthorization(HeaderGet(r.Header, "Authorization"),
                                            signature)
                 ELSE r.Header[h]],
   Body |-> r.Body]

\* lines 68-70: r.Request.Host = host; originalURL.Host = host
SetHost(r, host) == [r EXCEPT !.Host = host, !.URL.Host = host]

\* DoProxiedRequest(ctx, host): rewrites the request in place, signs it for the
\* new host with r.KeySecret, sends it; the origin answers or the transport fails
DoProxiedRequestTo(host) ==
  LET r1 == SetHost(req, host)
      signature == generateSigV4(r1, pr.parsedHeader, pr.KeySecret)
      out == OutboundRequest(r1, signature)
  IN \/ \E answer \in Responses :
          /\ req' = [r1 EXCEPT !.Body = <<>>]
          /\ sent' = Append(sent, [request |-> out, signature |-> signature])
          /\ last' = [res |-> answer, err |-> ""]
     \/ /\ req' = r1
        /\ sent' = sent
        /\ last' = [res |-> NilResponse, err |-> "error in http.DefaultClient.Do"]

\* a registered handler calls request.DoProxiedRequest(ctx, host)
HandlerForward ==
  /\ pc = "InHandler"
  /\ handlerKind = "registered"
  /\ hcalls.forward < MaxForwards
  /\ \E host \in TargetHosts : DoProxiedRequestTo(host)
  /\ hcalls' = [hcalls EXCEPT !.forward = @ + 1]
  /\ UNCHANGED <<pc, inbound, parsedHeader, keySecret, pr, serviceProvider, res,
                 herr, ret, sink, sinkLog, handle, handlerKind, lookups>>
  /\ UNCHANGED besideEngine

\* Hijack(): r.hijacked = true; return r.responseWriter (every call returns the
\* writer: whether Hijack was called before is not looked at)
Hijack ==
  /\ pc = "InHandler"
  /\ handlerKind = "registered"
  /\ hcalls.hijack < MaxHijackCalls
  /\ pr' = [pr EXCEPT !.hijacked = TRUE]
  /\ handle' = TRUE
  /\ hcalls' = [hcalls EXCEPT !.hijack = @ + 1, !.writers = @ + 1]
  /\ UNCHANGED <<pc, req, inbound, parsedHeader, keySecret, serviceProvider, res,
                 herr, ret, sink, sinkLog, last, sent, handlerKind, lookups>>
  /\ UNCHANGED besideEngine

\* the handler uses the response writer Hijack gave it (responseWriter is an
\* unexported field: a handler has no other way to it)
HandlerWrite ==
  /\ pc = "InHandler"
  /\ handle
  /\ hcalls.write < MaxProviderWrites
  /\ \/ \E code \in {200, 500} :
          /\ sink' = SinkWriteHeader(sink, code)
          /\ sinkLog' = Append(sinkLog, LogEntry("provider", "WriteHeader"))
     \/ /\ sink' = SinkWrite(sink, "h1")
        /\ sinkLog' = Append(sinkLog, LogEntry("provider", "Write"))
  /\ hcalls' = [hcalls EXCEPT !.write = @ + 1]
  /\ UNCHANGED <<pc, req, inbound, parsedHeader, keySecret, pr, serviceProvider,
                 res, herr, ret, handle, last, sent, handlerKind, lookups>>
  /\ UNCHANGED besideEngine

\* a registered handler returns: the origin's response or error, a response or an
\* error of its own, or (nil, nil)
HandlerReturn ==
  /\ pc = "InHandler"
  /\ handlerKind = "registered"
  /\ \/ \E r \in Responses \cup {NilResponse, last.res} : res' = r /\ herr' = ""
     \/ \E e \in {"handler failed", last.err} \ {""} :
          res' = NilResponse /\ herr' = e
  /\ pc' = "Dispatched"
  /\ UNCHANGED <<req, inbound, parsedHeader, keySecret, pr, serviceProvider, ret,
                 sink, sinkLog, handle, hcalls, last, sent, handlerKind, lookups>>
  /\ UNCHANGED besideEngine

\* BaseAWSProvider.HandleRequest:
\*   return request.DoProxiedRequest(ctx, p.serviceName + ".amazonaws.com")
BaseHandleRequest ==
  /\ pc = "InHandler"
  /\ handlerKind = "default"
  /\ DoProxiedRequestTo(DefaultOrigin(serviceProvider))
  /\ res' = last'.res
  /\ herr' = last'.err
  /\ hcalls' = [hcalls EXCEPT !.forward = @ + 1]
  /\ pc' = "Dispatched"
  /\ UNCHANGED <<inbound, parsedHeader, keySecret, pr, serviceProvider, ret, sink,
                 sinkLog, handle, handlerKind, lookups>>
  /\ UNCHANGED besideEngine

(***************************************************************************)
(* handleRequest, after the handler has returned                           *)
(***************************************************************************)

\* the handler's error dropped
HandlerFailedNever(err) == FALSE

\* line 58: err != nil
HandlerFailed(err) == err # ""

\* the hijack flag not consulted
IsHijackedNever(p) == FALSE

\* line 63: proxiedRequest.hijacked
IsHijacked(p) == p.hijacked

\* lines 58-66: the handler's error first, then the hijack flag
CheckHandlerResult ==
  /\ pc = "Dispatched"
  /\ IF HandlerFailed(herr)
     THEN Return(ReturnError("error handling request", herr))
     ELSE IF IsHijacked(pr)
     THEN Return(ReturnNil)
     ELSE pc' = "Respond" /\ UNCHANGED ret
  /\ UNCHANGED <<req, inbound, parsedHeader, keySecret, pr, serviceProvider, res,
                 herr, sink, sinkLog, handle, hcalls, last, sent, handlerKind,
                 lookups>>
  /\ UNCHANGED besideEngine

\* line 68: w.WriteHeader(res.StatusCode); res is nil when the handler returned
\* (nil, nil) without hijacking
EngineWriteHeader ==
  /\ pc = "Respond"
  /\ IF res.isNil
     THEN Return(Panicked) /\ UNCHANGED <<sink, sinkLog>>
     ELSE /\ sink' = SinkWriteHeader(sink, res.StatusCode)
          /\ sinkLog' = Append(sinkLog, LogEntry("engine", "WriteHeader"))
          /\ pc' = "Headers"
          /\ UNCHANGED ret
  /\ UNCHANGED <<req, inbound, parsedHeader, keySecret, pr, serviceProvider, res,
                 herr, handle, hcalls, last, sent, handlerKind, lookups>>
  /\ UNCHANGED besideEngine

\* lines 69-74: w.Header().Add(key, val) for the response's headers
EngineAddHeaders ==
  /\ pc = "Headers"
  /\ sink' = SinkAddHeaders(sink, res.Header)
  /\ sinkLog' = IF DOMAIN res.Header = {} THEN sinkLog
                ELSE Append(sinkLog, LogEntry("engine", "HeaderAdd"))
  /\ pc' = "Copy"
  /\ UNCHANGED <<req, inbound, parsedHeader, keySecret, pr, serviceProvider, res,
                 herr, ret, handle, hcalls, last, sent, handlerKind, lookups>>
  /\ UNCHANGED besideEngine

\* line 78, io.Copy(w, res.Body): the next chunk of the body is written
EngineCopyChunk ==
  /\ pc = "Copy"
  /\ res.read < Len(res.Body)
  /\ sink' = SinkWrite(sink, res.Body[res.read + 1])
  /\ sinkLog' = Append(sinkLog, LogEntry("engine", "Write"))
  /\ res' = [res EXCEPT !.read = @ + 1]
  /\ UNCHANGED <<pc, req, inbound, parsedHeader, keySecret, pr, serviceProvider,
                 herr, ret, handle, hcalls, last, sent, handlerKind, lookups>>
  /\ UNCHANGED besideEngine

\* lines 78-80: a write to the client (or a read of the body) fails mid-stream
EngineCopyFail ==
  /\ pc = "Copy"
  /\ res.read < Len(res.Body)
  /\ Return(ReturnError("error in io.Copy of response body", "write failed"))
  /\ UNCHANGED <<req, inbound, parsedHeader, keySecret, pr, serviceProvider, res,
                 herr, sink, sinkLog, handle, hcalls, last, sent, handlerKind,
                 lookups>>
  /\ UNCHANGED besideEngine

\* lines 78-82: the body is at its end; return nil
EngineCopyDone ==
  /\ pc = "Copy"
  /\ res.read = Len(res.Body)
  /\ Return(ReturnNil)
  /\ UNCHANGED <<req, inbound, parsedHeader, keySecret, pr, serviceProvider, res,
                 herr, sink, sinkLog, handle, hcalls, last, sent, handlerKind,
                 lookups>>
  /\ UNCHANGED besideEngine

Next ==
  \/ ParseHeader
  \/ LookupKey
  \/ Verify
  \/ ResolveProvider
  \/ Dispatch
  \/ HandlerForward
  \/ Hijack
  \/ HandlerWrite
  \/ HandlerReturn
  \/ BaseHandleRequest
  \/ CheckHandlerResult
  \/ EngineWriteHeader
  \/ EngineAddHeaders
  \/ EngineCopyChunk
  \/ EngineCopyFail
  \/ EngineCopyDone
  \/ CancelInbound

Spec == Init /\ [][Next]_vars

(***************************************************************************)
(* proxied_request.go: cloneBody and GetClonedBody                         *)
(***************************************************************************)

\* bytes in a request body
MaxBody == 3

\* bytes one Read of the body hands to io.Copy
MaxRead == 2

\* bytes one Read of a pipe reader takes (the consumer's buffer)
MaxBuf == 2

Min(a, b) == IF a < b THEN a ELSE b

\* the bodies a request may carry (its bytes are pairwise different, so that a
\* byte out of place shows)
Bodies == {Upto("abcdefgh", n) : n \in 0..MaxBody}

\* body streams, some of them failing at some offset
BodyStreams ==
  {o \in {BodyStream(d, f) : d \in Bodies, f \in -1..MaxBody} :
     o.failAt <= Len(o.data)}

besideClone == <<engineVars, registryVars, classified, codec, cancelled>>

\* io.ErrClosedPipe
ErrClosedPipe == "io: read/write on closed pipe"

\* a pipe reader that hands out the last bytes written first
DeliverLast(pending, n) == From(pending, Len(pending) - n)

\* pipe.read: the first n bytes of the pending write are copied to the reader
Deliver(pending, n) == Upto(pending, n)

\* a pipe writer that does not wait for its reader
WriteReturnsAtOnce(p) == TRUE

\* a pipe writer that waits for its bytes to be taken even when the read side
\* has been closed
WriteReturnsWhenRead(p) == p.pending = ""

\* pipe.write returns when a reader has taken all its bytes, or when the read
\* side has been closed
WriteReturns(p) == p.pending = "" \/ p.rclosed

\* the goroutine ends with the deferred Close calls alone: the error is dropped
CloseBothQuietly(ps, err) ==
  [k \in {1, 2} |-> [ps[k] EXCEPT !.pending = "",
                                  !.werr = IF @ = "" THEN "EOF" ELSE @]]

\* lines 38-49 as the goroutine ends: pw1 and pw2 closed (with the error, if any,
\* unless they already carry one) and orig closed
CloseBoth(ps, err) ==
  [k \in {1, 2} |-> [ps[k] EXCEPT !.pending = "",
                                  !.werr = IF @ = "" THEN err ELSE @]]

\* lines 57-61: cloned, original := cloneBody(r.Request.Body);
\* r.Request.Body = original; return cloned (cloneBody returns pr1, pr2 and starts
\* the goroutine)
GetClonedBody ==
  /\ copier.pc = "none"
  /\ copier' = [copier EXCEPT !.pc = "read"]
  /\ bodyRef' = [body |-> "pr2", cloned |-> "pr1"]
  /\ UNCHANGED <<orig, pipes, readers>>
  /\ UNCHANGED besideClone

\* line 42, io.Copy reads orig: the read fails, or orig is at its end (and the
\* goroutine closes everything, lines 38-49), or it yields some bytes, which
\* io.MultiWriter writes to pw1 first
CopierRead ==
  /\ copier.pc = "read"
  /\ IF orig.pos = orig.failAt
     THEN /\ copier' = [pc |-> "done", chunk |-> "", err |-> "read failed"]
          /\ pipes' = CloseBoth(pipes, "read failed")
          /\ orig' = [orig EXCEPT !.closed = TRUE]
     ELSE IF orig.pos = Len(orig.data)
     THEN /\ copier' = [pc |-> "done", chunk |-> "", err |-> ""]
          /\ pipes' = CloseBoth(pipes, "EOF")
          /\ orig' = [orig EXCEPT !.closed = TRUE]
     ELSE \E n \in 1..Min(MaxRead, Len(orig.data) - orig.pos) :
            /\ (orig.failAt > orig.pos => orig.pos + n <= orig.failAt)
            /\ LET chunk == SubSeq(orig.data, orig.pos + 1, orig.pos + n)
               IN /\ copier' = [pc |-> "write1", chunk |-> chunk, err |-> ""]
                  /\ pipes' = [pipes EXCEPT ![1].pending = chunk]
            /\ orig' = [orig EXCEPT !.pos = @ + n]
  /\ UNCHANGED <<readers, bodyRef>>
  /\ UNCHANGED besideClone

\* io.MultiWriter.Write: pw1.Write has returned, pw2.Write begins; pw2.Write has
\* returned, io.Copy reads again. A Write to a pipe whose read side is closed
\* returns ErrClosedPipe: io.Copy fails and the goroutine ends (lines 42-49).
CopierWritten ==
  /\ copier.pc \in {"write1", "write2"}
  /\ LET k == IF copier.pc = "write1" THEN 1 ELSE 2
     IN /\ WriteReturns(pipes[k])
        /\ IF pipes[k].rclosed
           THEN /\ copier' = [pc |-> "done", chunk |-> "", err |-> ErrClosedPipe]
                /\ pipes' = CloseBoth(pipes, ErrClosedPipe)
                /\ orig' = [orig EXCEPT !.closed = TRUE]
           ELSE IF k = 1
           THEN /\ copier' = [copier EXCEPT !.pc = "write2"]
                /\ pipes' = [pipes EXCEPT ![2].pending = copier.chunk]
                /\ orig' = orig
           ELSE /\ copier' = [copier EXCEPT !.pc = "read", !.chunk = ""]
                /\ UNCHANGED <<pipes, orig>>
  /\ UNCHANGED <<readers, bodyRef>>
  /\ UNCHANGED besideClone

\* the consumer of pipe reader k calls Read: it takes bytes of the pending write,
\* or learns that the write side is closed; with neither it blocks
PipeRead(k) ==
  /\ copier.pc # "none"
  /\ readers[k].end = ""
  /\ ~pipes[k].rclosed
  /\ IF pipes[k].pending # ""
     THEN \E n \in 1..Min(MaxBuf, Len(pipes[k].pending)) :
            /\ readers' = [readers EXCEPT
                             ![k].data = @ \o Deliver(pipes[k].pending, n),
                             ![k].reads = 1]
            /\ pipes' = [pipes EXCEPT ![k].pending = From(@, n)]
     ELSE /\ pipes[k].werr # ""
          /\ readers' = [readers EXCEPT ![k].end = pipes[k].werr, ![k].reads = 1]
          /\ pipes' = pipes
  /\ UNCHANGED <<orig, copier, bodyRef>>
  /\ UNCHANGED besideClone

\* the consumer of pipe reader k closes it
PipeClose(k) ==
  /\ copier.pc # "none"
  /\ readers[k].end = ""
  /\ ~pipes[k].rclosed
  /\ pipes' = [pipes EXCEPT ![k].rclosed = TRUE]
  /\ UNCHANGED <<orig, copier, readers, bodyRef>>
  /\ UNCHANGED besideClone

\* The client goes away while the goroutine runs. cloneBody is given no context
\* (line 26): nothing of it waits on r.Context(). The server fails the reads of
\* the request body from some point on (at once, or once what it had buffered is
\* read).
CancelDuringClone ==
  /\ copier.pc \in {"read", "write1", "write2"}
  /\ ~cancelled
  /\ cancelled' = TRUE
  /\ \E f \in orig.pos..(IF orig.failAt >= 0 THEN orig.failAt ELSE Len(orig.data)) :
       orig' = [orig EXCEPT !.failAt = f]
  /\ UNCHANGED <<copier, pipes, readers, bodyRef>>
  /\ UNCHANGED <<engineVars, registryVars, classified, codec>>

InitClone ==
  /\ EngineIdle
  /\ \E o \in BodyStreams : CloneFresh(o)
  /\ NewAWSServiceRegistry
  /\ NotClassified
  /\ NoCodecCall
  /\ NotCancelled

NextClone ==
  \/ GetClonedBody
  \/ CopierRead
  \/ CopierWritten
  \/ \E k \in {1, 2} : PipeRead(k)
  \/ \E k \in {1, 2} : PipeClose(k)
  \/ CancelDuringClone

SpecClone == InitClone /\ [][NextClone]_vars

\* the goroutine is scheduled: a step of it that can be taken is taken. Nothing
\* makes the consumers of the two streams read.
SpecCloneLive ==
  SpecClone /\ WF_vars(CopierRead) /\ WF_vars(CopierWritten)

\* the goroutine is scheduled, and the consumer of each stream goes on until it
\* has read its stream to the end or closed it: while it has done neither, it
\* reads or closes
SpecCloneDrained ==
  /\ SpecClone
  /\ WF_vars(CopierRead)
  /\ WF_vars(CopierWritten)
  /\ \A k \in {1, 2} : WF_vars(PipeRead(k) \/ PipeClose(k))

(***************************************************************************)
(* AWSServiceRegistry and BaseAWSProvider.CanHandleRequest                 *)
(***************************************************************************)

\* calls of RegisterProvider
MaxRegistrations == 3

\* the providers a deployment may register: two instances per service name
ProviderPool ==
  {Provider(n, i) : n \in {"s3", "dynamodb"}, i \in {1, 2}}

\* requests by their Host and URL host
RegistryRequests ==
  {[Host |-> "s3.local", URLHost |-> ""],
   [Host |-> "dynamodb.s3.local", URLHost |-> ""],
   [Host |-> "db.local", URLHost |-> ""],
   [Host |-> "", URLHost |-> "s3.local"]}

besideRegistry == <<engineVars, cloneVars, classified, codec, cancelled>>

\* strings.Contains
Contains(s, sub) == Index(s, sub) >= 0

\* BaseAWSProvider.CanHandleRequest: the host (the URL's when the request has
\* none) contains serviceName + "."
CanHandleRequest(p, r) ==
  LET host == IF r.Host = "" THEN r.URLHost ELSE r.Host
  IN Contains(host, p.name \o ".")

\* a registry that keeps the provider first registered under a name
ProvidersKeepFirst(m, p) ==
  [n \in DOMAIN m \cup {p.name} |-> IF n \in DOMAIN m THEN m[n] ELSE p]

\* line 35: r.providers[provider.ServiceName()] = provider
ProvidersWith(m, p) ==
  [n \in DOMAIN m \cup {p.name} |-> IF n = p.name THEN p ELSE m[n]]

\* RegisterProvider(provider)
RegisterProvider ==
  /\ Len(registered) < MaxRegistrations
  /\ \E p \in ProviderPool :
       /\ providers' = ProvidersWith(providers, p)
       /\ registered' = Append(registered, p)
  /\ found' = NotLookedUp
  /\ UNCHANGED besideRegistry

\* GetProviderForRequest(request): the loop ranges over the map r.providers, in
\* an order Go does not fix; the first provider it meets that can handle the
\* request is returned
GetProviderForRequest ==
  /\ \E r \in RegistryRequests :
       LET able == {n \in DOMAIN providers : CanHandleRequest(providers[n], r)}
       IN IF able = {}
          THEN found' = [called |-> TRUE, ok |-> FALSE, provider |-> NoProvider,
                         request |-> r]
          ELSE \E n \in able :
                 found' = [called |-> TRUE, ok |-> TRUE, provider |-> providers[n],
                           request |-> r]
  /\ UNCHANGED <<providers, registered>>
  /\ UNCHANGED besideRegistry

InitRegistry ==
  /\ EngineIdle
  /\ CloneFresh(BodyStream("", -1))
  /\ NewAWSServiceRegistry
  /\ NotClassified
  /\ NoCodecCall
  /\ NotCancelled

NextRegistry ==
  \/ RegisterProvider
  \/ GetProviderForRequest

SpecRegistry == InitRegistry /\ [][NextRegistry]_vars

(***************************************************************************)
(* S3Provider.ExtractOperationName applied to requests                     *)
(***************************************************************************)

ClassifyMethods == {"GET", "PUT", "DELETE", "POST", "HEAD"}

\* URL.Path of a request (unescaped: %0A in the request line is a line break,
\* %3F a question mark)
ClassifyPaths ==
  {"/", "/b", "/b/", "/b/k", "/b/k/", "/b/d/k", "/b/a\nk", "/b/k\n", "//k",
   "/b?/k"}

\* URL.RawQuery of a request
ClassifyQueries ==
  {"", "x=1", "list-type=2", "uploads", "uploads&list-type=2",
   "x=1&uploads=", "list%2Dtype=2", "list-type=2;x=1", "uploads=%zz"}

besideClassify == <<engineVars, cloneVars, registryVars, codec, cancelled>>

\* p.ExtractOperationName(request) for a request not yet named
ExtractOperationName ==
  /\ classified.operation = ""
  /\ \E operation \in ExtractOperationNames(classified.Method, classified.Path,
                                            classified.RawQuery) :
       classified' = [classified EXCEPT !.operation = operation]
  /\ UNCHANGED besideClassify

InitClassify ==
  /\ EngineIdle
  /\ CloneFresh(BodyStream("", -1))
  /\ NewAWSServiceRegistry
  /\ \E m \in ClassifyMethods, p \in ClassifyPaths, q \in ClassifyQueries :
       classified = [Method |-> m, Path |-> p, RawQuery |-> q, operation |-> ""]
  /\ NoCodecCall
  /\ NotCancelled

NextClassify == ExtractOperationName

SpecClassify == InitClassify /\ [][NextClassify]_vars

(***************************************************************************)
(* The SigV4 codec applied to requests                                     *)
(***************************************************************************)

besideCodec == <<engineVars, cloneVars, registryVars, classified, cancelled>>

\* the Authorization value rewritten: every old in it becomes new, in the fields
\* before the signature (withSignature = FALSE) or in the whole value
WithAuthorization(r, old, new, withSignature) ==
  LET auth == r.Header["authorization"]
      i == Index(auth, "Signature=")
  IN [r EXCEPT !.Header["authorization"] =
        IF withSignature \/ i < 0 THEN ReplaceAll(auth, old, new)
        ELSE ReplaceAll(Upto(auth, i), old, new) \o From(auth, i)]

\* what may happen to a signed request on its way: its path, a signed header or
\* a field of its Authorization header is changed
Mutations ==
  {"none", "path", "host", "x-amz-date", "region", "service", "signed headers",
   "signature", "credential date", "credential terminator", "algorithm"}

Mutated(r, mutation) ==
  CASE mutation = "path" -> [r EXCEPT !.URL.Path = @ \o "2"]
    [] mutation = "host" -> [r EXCEPT !.Host = "evil.local"]
    [] mutation = "x-amz-date" -> [r EXCEPT !.Header["x-amz-date"] = "20130524T000001Z"]
    [] mutation = "region" -> WithAuthorization(r, "/r1/", "/r2/", FALSE)
    [] mutation = "service" -> WithAuthorization(r, "/s3/", "/ec2/", FALSE)
    [] mutation = "signed headers" -> WithAuthorization(r, "host;x-amz-date", "host", FALSE)
    [] mutation = "signature" -> WithAuthorization(r, "Signature=x", "Signature=y", TRUE)
    [] mutation = "credential date" -> WithAuthorization(r, "/20130524/", "/20130525/", FALSE)
    [] mutation = "credential terminator" ->
         WithAuthorization(r, "/aws4_request", "/aws4_other", FALSE)
    [] mutation = "algorithm" ->
         WithAuthorization(r, "AWS4-HMAC-SHA256", "AWS4-HMAC-SHA1", FALSE)
    [] OTHER -> r

Secrets == {"sec1", "sec2", ""}

\* requests a client signed, as they reach the verifier
VerifyCalls ==
  {[call |-> "verify",
    request |-> Mutated(ClientSigned(m, "s3.local", p, "AK1", sw), mu),
    signedWith |-> sw, note |-> mu, secret |-> sec, done |-> FALSE, result |-> ""] :
     m \in {"GET", "PUT"}, p \in {"/b/k", "/b/a b"}, sw \in {"sec1", "sec2"},
     mu \in Mutations, sec \in Secrets}

\* handleRequest lines 24 and 33-37 (and verifyAWSRequestMiddleware, sigv4.go
\* 143-148): parse the header, recompute the signature with the secret, compare
VerifyOutcome(r, secret) ==
  LET ph == parseAuthHeader(HeaderGet(r.Header, "Authorization"))
  IN IF ph.panic \/ DateSlicePanics(r) THEN "panic"
     ELSE IF SignatureMismatch(generateSigV4(r, ph.h, secret), ph.h.Signature)
     THEN "invalid signature"
     ELSE "ok"

VerifyRequest ==
  /\ codec.call = "verify"
  /\ ~codec.done
  /\ codec' = [codec EXCEPT !.done = TRUE,
                            !.result = VerifyOutcome(codec.request, codec.secret)]
  /\ UNCHANGED besideCodec

\* n spaces
RECURSIVE Spaces(_)
Spaces(n) == IF n = 0 THEN "" ELSE " " \o Spaces(n - 1)

\* an Authorization value with gap1 spaces after the credential and gap2 spaces
\* after the signed headers (the example in the comment of parseAuthHeader, line
\* 103, has two spaces before SignedHeaders and one before Signature)
SpacedAuthorization(keyID, signature, gap1, gap2) ==
  "AWS4-HMAC-SHA256 "
    \o "Credential=" \o CredentialOf(keyID) \o "," \o Spaces(gap1)
    \o "SignedHeaders=host;x-amz-date," \o Spaces(gap2)
    \o "Signature=" \o signature

\* the widest run of spaces between two fields
MaxGap == 3

\* requests whose Authorization value is handed to parseAuthHeader; note is the
\* same value with single spaces
ParseCalls ==
  {[call |-> "parse",
    request |-> Request("GET", "s3.local", "/b/k",
                        SpacedAuthorization(k, sig, g1, g2), GoodDate),
    signedWith |-> "", note |-> SpacedAuthorization(k, sig, 1, 1), secret |-> "",
    done |-> FALSE, result |-> ""] :
     k \in {"AK1", "AK9"}, sig \in {"0", "fe5f"}, g1 \in 1..MaxGap, g2 \in 1..MaxGap}

\* handleRequest line 24: parseAuthHeader(r.Header.Get("Authorization"))
ParseAuthorization ==
  /\ codec.call = "parse"
  /\ ~codec.done
  /\ codec' = [codec EXCEPT
                 !.done = TRUE,
                 !.result = parseAuthHeader(HeaderGet(codec.request.Header,
                                                      "Authorization"))]
  /\ UNCHANGED besideCodec

\* an Authorization value that declares the signed header names in this order
AuthorizationDeclaring(names) ==
  "AWS4-HMAC-SHA256 Credential=" \o CredentialOf("AK1") \o ", SignedHeaders="
    \o Join(names, ";") \o ", Signature=0"

\* the orders SignedHeaders= declares the names in; the first of each group is
\* the ascending one
SignedHeaderOrders ==
  {<<"host", "x-amz-date">>, <<"x-amz-date", "host">>,
   <<"host", "range", "x-amz-date">>, <<"host", "x-amz-date", "range">>,
   <<"range", "host", "x-amz-date">>, <<"range", "x-amz-date", "host">>,
   <<"x-amz-date", "host", "range">>, <<"x-amz-date", "range", "host">>}

\* requests handed to getCanonicalRequest; note is the ascending order of the
\* names the request declares
CanonicalCalls ==
  {[call |-> "canonical",
    request |-> [Request(m, "s3.local", p, "", GoodDate) EXCEPT
                   !.Header = [h \in {"authorization", "x-amz-date", "range"} |->
                                 CASE h = "authorization" -> AuthorizationDeclaring(o)
                                   [] h = "x-amz-date" -> GoodDate
                                   [] h = "range" -> "bytes=0-9"]],
    signedWith |-> "",
    note |-> IF Len(o) = 2 THEN "host;x-amz-date" ELSE "host;range;x-amz-date",
    secret |-> "", done |-> FALSE, result |-> ""] :
     m \in {"GET", "PUT"}, p \in {"/b/k", "/b/a b"}, o \in SignedHeaderOrders}

\* generateSigV4 line 159: canonicalRequest := getCanonicalRequest(r)
CanonicalRequest ==
  /\ codec.call = "canonical"
  /\ ~codec.done
  /\ codec' = [codec EXCEPT !.done = TRUE,
                            !.result = getCanonicalRequest(codec.request)]
  /\ UNCHANGED besideCodec

\* the three fields of an Authorization value, for a list of signed header names
AuthorizationFields(names) ==
  [credential |-> "Credential=" \o CredentialOf("AK1"),
   signed |-> "SignedHeaders=" \o names,
   signature |-> "Signature=0"]

\* Authorization values of one content in several layouts: the fields separated
\* by ", ", by "," or by " ", and SignedHeaders as second, first or last field
LaidOutAuthorizations(names) ==
  LET f == AuthorizationFields(names)
  IN {"AWS4-HMAC-SHA256 " \o Join(fields, sep) :
        fields \in {<<f.credential, f.signed, f.signature>>,
                    <<f.signed, f.credential, f.signature>>,
                    <<f.credential, f.signature, f.signed>>,
                    <<f.credential, f.signature>>},
        sep \in {", ", ",", " "}}

\* requests whose Authorization value is parsed by parseAuthHeader and read again
\* by getCanonicalRequest
SignedHeaderCalls ==
  UNION {{[call |-> "signed headers",
           request |-> Request("GET", "s3.local", "/b/k", a, GoodDate),
           signedWith |-> "", note |-> names, secret |-> "", done |-> FALSE,
           result |-> ""] : a \in LaidOutAuthorizations(names)} :
         names \in {"host", "host;x-amz-date", "x-amz-date;host"}}

\* handleRequest line 24 and getCanonicalRequest lines 40-45 on one request: the
\* parsed header, and the names the canonical request is built from
ReadSignedHeaders ==
  /\ codec.call = "signed headers"
  /\ ~codec.done
  /\ codec' = [codec EXCEPT
                 !.done = TRUE,
                 !.result =
                    [parsed |-> parseAuthHeader(HeaderGet(codec.request.Header,
                                                          "Authorization")),
                     canonical |-> CanonicalSignedHeaders(codec.request)]]
  /\ UNCHANGED besideCodec

InitCodec ==
  /\ EngineIdle
  /\ CloneFresh(BodyStream("", -1))
  /\ NewAWSServiceRegistry
  /\ NotClassified
  /\ codec \in VerifyCalls \cup ParseCalls \cup CanonicalCalls \cup SignedHeaderCalls
  /\ NotCancelled

NextCodec ==
  \/ VerifyRequest
  \/ ParseAuthorization
  \/ CanonicalRequest
  \/ ReadSignedHeaders

SpecCodec == InitCodec /\ [][NextCodec]_vars

(***************************************************************************)
(* The engine's states of the design, read off handleRequest's state       *)
(***************************************************************************)

\* how handling ended: by a returned error, by nil after a hijack, by nil after
\* the response was streamed, or by a panic (none of the three)
Outcome ==
  IF pc # "Done" THEN "Running"
  ELSE IF ret.kind = "panic" THEN "Panicked"
  ELSE IF ret.kind = "error" THEN "ErrorResponded"
  ELSE IF pr.hijacked THEN "HijackedTerminal"
  ELSE "Streamed"

\* The error kind of the design a returned error is. handleRequest leaves the
\* answer to its caller ("TODO respond"): kinds and statuses are the design's table.
ErrorKind(r) ==
  CASE r.msg = "invalid signature" -> "InvalidSignature"
    [] r.msg = "error looking up key" -> "LookupInfraError"
    [] r.msg = "error looking up service provider" -> "LookupInfraError"
    [] r.msg = "error handling request" -> "HandlerError"
    [] r.msg = "error in io.Copy of response body" -> "StreamCopyError"
    [] OTHER -> "None"

\* the client-visible status of each error kind (0: no status of its own)
StatusOfKind(kind) ==
  CASE kind = "MalformedHeader" -> 400
    [] kind = "KeyNotFound" -> 403
    [] kind = "LookupInfraError" -> 500
    [] kind = "InvalidSignature" -> 403
    [] kind = "ProviderNotFound" -> 502
    [] kind = "HandlerError" -> 500
    [] OTHER -> 0

ErrorStatus(r) == StatusOfKind(ErrorKind(r))

\* handleRequest has made this call ("key", "service", "handler")
Called(what) == \E i \in DOMAIN lookups : lookups[i] = what

(***************************************************************************)
(* Properties                                                              *)
(***************************************************************************)

\* C1: every request DoProxiedRequest sends carries, in Authorization, the
\* signature computed for the target host with the resolved secret and the
\* original region and service (so the origin re-verifies it with the same
\* codec), and not the inbound signature when the host has changed.
C1_OutboundCarriesNewSignature ==
  \A i \in DOMAIN sent :
    LET o == sent[i].request
        declared == parseAuthHeader(HeaderGet(o.Header, "Authorization")).h.Signature
    IN /\ declared = generateSigV4(o, pr.parsedHeader, keySecret)
       /\ (o.Host # inbound.Host => declared # parsedHeader.Signature)

\* C2: a provider's HandleRequest is called only for a request whose signature,
\* recomputed over the request as it arrived with the secret resolved for its key
\* id, equals the declared one; on a mismatch handling ends with the invalid
\* signature error (403), and no service lookup or provider call is ever made.
C2_DispatchOnlyWhenVerified ==
  /\ [](ErrorKind(ret) = "InvalidSignature"
         => /\ pc = "Done"
            /\ ErrorStatus(ret) = 403
            /\ ~Called("service")
            /\ ~Called("handler"))
  /\ [][/\ (~Called("handler") /\ Called("handler")')
            => /\ ~DateSlicePanics(inbound)
               /\ generateSigV4(inbound, parsedHeader, keySecret)
                    = parsedHeader.Signature
        /\ (/\ pc = "KeyResolved"
            /\ pc' # "KeyResolved"
            /\ ~DateSlicePanics(inbound)
            /\ generateSigV4(inbound, parsedHeader, keySecret)
                 # parsedHeader.Signature)
            => /\ pc' = "Done"
               /\ ret' = ReturnError("invalid signature", "")
               /\ lookups' = lookups]_vars

\* C2 witness: a request signed with another secret than the stored one was
\* turned away at the signature check
C2_MismatchRejected ==
  /\ pc = "Done"
  /\ ErrorKind(ret) = "InvalidSignature"
  /\ inbound.URL.Path = "/b/k"
  /\ parsedHeader.Credential.KeyID = "AK1"
  /\ lookups = <<"key">>

\* C3: for a key id the key store does not hold (and no backend failure), handling
\* ends in a 403 error and no provider is called, whatever the signature.
C3_UnknownKeyRejected ==
  (/\ Called("key")
   /\ parsedHeader.Credential.KeyID \notin DOMAIN KeyStore
   /\ ErrorKind(ret) # "LookupInfraError")
    => /\ ~Called("handler")
       /\ pc = "Done" => (ret.kind = "error" /\ ErrorStatus(ret) = 403)

\* C4: every call the engine makes on the response writer is made while the
\* request is not hijacked and every call a handler makes is made after Hijack;
\* once hijacked the log holds no engine call at all, whatever the handler
\* returns; a handler holds the writer only after Hijack.
C4_EngineSilentAfterHijack ==
  /\ \A i \in DOMAIN sinkLog : sinkLog[i].by = "engine" <=> ~sinkLog[i].hijacked
  /\ pr.hijacked => \A i \in DOMAIN sinkLog : sinkLog[i].by = "provider"
  /\ handle => pr.hijacked

\* C4 witness: a handler hijacked, wrote, returned a response of its own, and
\* handleRequest has returned
C4_HijackedAndReturned ==
  /\ pc = "Done"
  /\ pr.hijacked
  /\ ~res.isNil
  /\ sinkLog # <<>>

\* C5: after a hijack the engine's outcome is HijackedTerminal, also when the
\* handler returned an error.
C5_HijackShortCircuitsErrors ==
  (pc = "Done" /\ pr.hijacked) => Outcome = "HijackedTerminal"

\* the value of the Credential= field of a raw Authorization header
CredentialField(header) ==
  LET rest == From(header, Index(header, "Credential=") + Len("Credential="))
      j == Index(rest, " ")
      tok == IF j < 0 THEN rest ELSE Upto(rest, j)
  IN IF HasSuffix(tok, ",") THEN Upto(tok, Len(tok) - 1) ELSE tok

\* a header the design calls malformed: a field absent, or a Credential that has
\* not exactly 5 segments
IsMalformedHeader(header) ==
  \/ Index(header, "Credential=") < 0
  \/ Index(header, "SignedHeaders=") < 0
  \/ Index(header, "Signature=") < 0
  \/ Len(Split(CredentialField(header), "/")) # 5

\* C6: a malformed Authorization header ends handling with the MalformedHeader
\* error (400), and the key lookup is not made.
C6_MalformedHeaderIs400 ==
  (IsMalformedHeader(HeaderGet(inbound.Header, "Authorization")) /\ pc # "Received")
    => /\ pc = "Done"
       /\ ret.kind = "error"
       /\ ErrorStatus(ret) = 400
       /\ ~Called("key")

\* C7: whatever the Authorization and X-Amz-Date headers hold, handling ends in
\* one of Streamed, HijackedTerminal, ErrorResponded.
C7_EndsInOneOfThree ==
  pc = "Done" => Outcome \in {"Streamed", "HijackedTerminal", "ErrorResponded"}

\* C8: when the service lookup has no provider for the inbound host (and did not
\* fail), handling ends in a 502 error and no HandleRequest is called.
C8_NoProviderIs502 ==
  (/\ Called("service")
   /\ inbound.Host \notin DOMAIN ServiceStore
   /\ ErrorKind(ret) # "LookupInfraError")
    => /\ ~Called("handler")
       /\ pc = "Done" => (ret.kind = "error" /\ ErrorStatus(ret) = 502)

\* C9: when HandleRequest returned an error and the request is not hijacked,
\* handleRequest returns the error that wraps it (500), and nothing was written
\* to the response writer.
C9_HandlerErrorIs500 ==
  (pc = "Done" /\ Called("handler") /\ herr # "" /\ ~pr.hijacked)
    => /\ ret = ReturnError("error handling request", herr)
       /\ ErrorStatus(ret) = 500
       /\ sinkLog = <<>>
       /\ sink = NewSink

\* C9 witness: the default forward failed in the transport and handleRequest
\* has returned
C9_DefaultForwardFailed ==
  /\ pc = "Done"
  /\ handlerKind = "default"
  /\ herr = "error in http.DefaultClient.Do"
  /\ ~pr.hijacked

\* C10: when the handler returned a response and did not hijack, the client has
\* the handler's status and all its headers, committed before the body, then the
\* handler's body in order.
C10_ResponseRelayed ==
  (pc = "Done" /\ ret = ReturnNil /\ ~pr.hijacked)
    => /\ sink.status = res.StatusCode
       /\ sink.sentHeader = res.Header
       /\ sink.body = res.Body

\* C11: each of the two streams cloneBody returns delivers the bytes of the body
\* in order, nothing dropped, doubled or out of place, however the two consumers
\* and the goroutine interleave; a stream that reaches EOF has delivered the whole
\* body; with no read error and no Close neither stream ends in an error, and while
\* a stream has not ended some step can be taken; r.Request.Body is the second
\* reader (original) and the caller holds the first (cloned).
C11_BothStreamsYieldBody ==
  /\ \A k \in {1, 2} :
       /\ HasPrefix(orig.data, readers[k].data)
       /\ readers[k].end = "EOF" => readers[k].data = orig.data
       /\ (orig.failAt = -1 /\ ~pipes[1].rclosed /\ ~pipes[2].rclosed)
            => readers[k].end \in {"", "EOF"}
  /\ (/\ copier.pc # "none"
      /\ ~pipes[1].rclosed /\ ~pipes[2].rclosed
      /\ \E k \in {1, 2} : readers[k].end = "")
       => ENABLED (CopierRead \/ CopierWritten \/ \E k \in {1, 2} : PipeRead(k))
  /\ copier.pc # "none" => bodyRef = [body |-> "pr2", cloned |-> "pr1"]

\* C11 witness: both streams of a body of two bytes or more read to EOF
C11_BothDrained ==
  /\ readers[1].end = "EOF"
  /\ readers[2].end = "EOF"
  /\ Len(orig.data) >= 2
  /\ readers[1].data = orig.data

C13_ResignsWithResolvedSecret ==
  \A i \in DOMAIN sent :
    sent[i].signature = generateSigV4(sent[i].request, parsedHeader, keySecret)

\* C14: every request DoProxiedRequest sends has the method, path, query and body
\* of the inbound request and each of its headers with its value, Authorization
\* apart from its Signature= component.
C14_OutboundEqualsInbound ==
  \A i \in DOMAIN sent :
    LET o == sent[i].request
    IN /\ o.Method = inbound.Method
       /\ o.URL.Path = inbound.URL.Path
       /\ o.URL.RawQuery = inbound.URL.RawQuery
       /\ o.Body = inbound.Body
       /\ DOMAIN o.Header = DOMAIN inbound.Header
       /\ \A h \in DOMAIN inbound.Header :
            IF h = "authorization"
            THEN ReplaceSignature(o.Header[h], "Signature=0")
                   = ReplaceSignature(inbound.Header[h], "Signature=0")
            ELSE o.Header[h] = inbound.Header[h]

\* C15: GetProviderForRequest returns false exactly when no registered provider
\* can handle the request, and otherwise the provider that can handle it and was
\* registered earliest.
C15_ResolveFirstRegistered ==
  found.called =>
    LET able == {i \in DOMAIN registered :
                   /\ providers[registered[i].name] = registered[i]
                   /\ CanHandleRequest(registered[i], found.request)}
    IN IF able = {} THEN ~found.ok
       ELSE /\ found.ok
            /\ found.provider = registered[CHOOSE i \in able : \A j \in able : i <= j]

\* C16: the registry holds an entry for exactly the service names registered so
\* far, each entry being the provider most recently registered under its name; a
\* RegisterProvider call changes no entry but the one of its provider's name.
C16_OneProviderPerName ==
  /\ [](/\ DOMAIN providers = {registered[i].name : i \in DOMAIN registered}
        /\ \A n \in DOMAIN providers :
             LET calls == {i \in DOMAIN registered : registered[i].name = n}
             IN providers[n] = registered[CHOOSE i \in calls : \A j \in calls : j <= i])
  /\ [][registered' # registered =>
          LET p == registered'[Len(registered')]
          IN /\ DOMAIN providers' = DOMAIN providers \cup {p.name}
             /\ \A n \in DOMAIN providers : n # p.name => providers'[n] = providers[n]]_vars

\* C16 witness: a second provider registered under a name that had one, beside a
\* provider of another name
C16_Overwritten ==
  /\ Cardinality(DOMAIN providers) = 2
  /\ \E i, j \in DOMAIN registered :
       /\ i < j
       /\ registered[i].name = registered[j].name
       /\ registered[i] # registered[j]
       /\ providers[registered[j].name] = registered[j]

\* C17: HandleRequest does one of two things. When a handler is registered under
\* the operation name ExtractOperationName returns for the request, that handler
\* runs and the default forward does not; otherwise DoProxiedRequest is called
\* exactly once, for the default origin of the service, nothing else is done with
\* the request, and its response and error are returned as they are.
C17_HandlerOrDefaultForward ==
  Called("handler") =>
    LET names == ExtractOperationNames(inbound.Method, inbound.URL.Path,
                                       inbound.URL.RawQuery)
    IN /\ handlerKind = "registered" => names \cap operationHandlers # {}
       /\ handlerKind = "default" =>
            /\ names \ operationHandlers # {}
            /\ hcalls.hijack = 0 /\ hcalls.write = 0 /\ ~pr.hijacked
            /\ IF pc = "InHandler"
               THEN hcalls.forward = 0 /\ sent = <<>>
               ELSE /\ hcalls.forward = 1
                    /\ req.Host = DefaultOrigin(serviceProvider)
                    /\ Len(sent) <= 1
                    /\ \A i \in DOMAIN sent :
                         sent[i].request.Host = DefaultOrigin(serviceProvider)
                    /\ last.err = "" <=> Len(sent) = 1
                    /\ herr = last.err
                    /\ [res EXCEPT !.read = 0] = last.res

\* C17 witness: a handler is registered, but under another name than the request's
\* operation; the default forward was answered and HandleRequest has returned
C17_DefaultForwardReturned ==
  /\ pc = "Dispatched"
  /\ handlerKind = "default"
  /\ operationHandlers = {"PutObject"}
  /\ Len(sent) = 1
  /\ res = last.res
  /\ ~res.isNil

\* the segments of a path: what lies between its slashes
Segments(path) == Split(path, "/")

\* a path /{bucket} or /{bucket}/
IsBucketPath(path) ==
  LET segs == Segments(path)
  IN /\ Len(segs) \in {2, 3}
     /\ segs[1] = ""
     /\ segs[2] # ""
     /\ Len(segs) = 3 => segs[3] = ""

\* a path /{bucket}/{key...} whose key is not empty and does not end in a slash
IsObjectPath(path) ==
  LET segs == Segments(path)
  IN /\ Len(segs) >= 3
     /\ segs[1] = ""
     /\ segs[2] # ""
     /\ segs[Len(segs)] # ""

\* the request has neither a list-type nor an uploads query parameter
NoQueryRule(rawQuery) ==
  QueryKeys(rawQuery) \cap {"list-type", "uploads"} = {}

\* C18: a request for /{bucket} or /{bucket}/ without a list-type or uploads
\* parameter is named CreateBucket when PUT, DeleteBucket when DELETE and
\* ListObjects when GET.
C18_BucketOperations ==
  (/\ classified.operation # ""
   /\ IsBucketPath(classified.Path)
   /\ NoQueryRule(classified.RawQuery))
    => /\ classified.Method = "PUT" => classified.operation = "CreateBucket"
       /\ classified.Method = "DELETE" => classified.operation = "DeleteBucket"
       /\ classified.Method = "GET" => classified.operation = "ListObjects"

\* C19: a request for /{bucket}/{key...}, the key not empty and not ending in a
\* slash, without a list-type or uploads parameter, is named GetObject when GET,
\* PutObject when PUT and DeleteObject when DELETE.
C19_ObjectOperations ==
  (/\ classified.operation # ""
   /\ IsObjectPath(classified.Path)
   /\ NoQueryRule(classified.RawQuery))
    => /\ classified.Method = "GET" => classified.operation = "GetObject"
       /\ classified.Method = "PUT" => classified.operation = "PutObject"
       /\ classified.Method = "DELETE" => classified.operation = "DeleteObject"

C22_SignVerifyRoundTrip ==
  (codec.call = "verify" /\ codec.done) =>
    /\ (codec.note = "none" /\ codec.secret = codec.signedWith) => codec.result = "ok"
    /\ codec.secret # codec.signedWith => codec.result # "ok"
    /\ codec.note # "none" => codec.result # "ok"

\* C23: a second call of Hijack on a ProxiedRequest fails: the handler is never
\* given the response writer a second time.
C23_SecondHijackFails ==
  hcalls.writers <= 1

\* C24: once the inbound request is cancelled while the goroutine of cloneBody
\* runs, the goroutine ends and both pipes are closed with an error, whether or
\* not the streams are read.
C24_CancelTearsDownCopier ==
  cancelled ~> (/\ copier.pc = "done"
                /\ \A k \in {1, 2} : pipes[k].werr \notin {"", "EOF"})

\* C25: while handleRequest is between its key lookup and the return of the
\* handler, the context it hands to the key lookup, the service lookup and the
\* forward is done whenever the inbound request is cancelled.
C25_CancellationReachesCalls ==
  (/\ cancelled
   /\ pc \in {"HeaderParsed", "KeyResolved", "Verified", "ProviderResolved",
              "InHandler"})
    => ContextDone(EngineContext)

\* C26: parseAuthHeader takes a run of spaces between two fields for one
\* separator: it does not panic on the empty token, and the header parses to
\* what the same header with single spaces parses to.
C26_SpaceRunsAreOneSeparator ==
  (codec.call = "parse" /\ codec.done) =>
    /\ ~codec.result.panic
    /\ codec.result = parseAuthHeader(codec.note)

\* C27: when the goroutine of cloneBody has finished, both pipe writers are closed
\* and the original body is closed, whether the body ended or an error stopped
\* the copy; when a read of the body failed, both pipes carry the read error, a
\* reader that has not closed its stream can read on, and what its reads end with
\* is that error.
C27_CopierEndClosesAll ==
  /\ copier.pc = "done" =>
       /\ orig.closed
       /\ \A k \in {1, 2} : pipes[k].werr # "" /\ pipes[k].pending = ""
  /\ copier.pc # "done" => ~orig.closed
  /\ copier.err = "read failed" =>
       \A k \in {1, 2} :
         /\ pipes[k].werr = "read failed"
         /\ readers[k].end \in {"", "read failed"}
         /\ (readers[k].end = "" /\ ~pipes[k].rclosed) => ENABLED PipeRead(k)

\* C27 witness: a read of the body failed after bytes had been copied, and both
\* readers have received the read error
C27_ReadErrorAtBothReaders ==
  /\ copier.err = "read failed"
  /\ orig.pos >= 1
  /\ orig.closed
  /\ \A k \in {1, 2} : readers[k].end = "read failed" /\ readers[k].data # ""

\* C28: a handler may call DoProxiedRequest more than once, and every call sends
\* the whole body of the inbound request to the origin.
C28_EveryForwardSendsWholeBody ==
  \A i \in DOMAIN sent : sent[i].request.Body = inbound.Body

\* C29: the OriginalHost of the ProxiedRequest is the host of the request as it
\* arrived, however often DoProxiedRequest has rewritten r.Host and r.URL.Host;
\* the service lookup is made while r.Host is still the inbound host, before any
\* forward, and the provider is the one stored for the inbound host.
C29_OriginalHostPreserved ==
  /\ [](/\ (pc \in {"Verified", "ProviderResolved", "InHandler", "Dispatched",
                    "Respond", "Headers", "Copy"} \/ Called("service"))
             => pr.OriginalHost = inbound.Host
        /\ hcalls.forward = 0 => req.Host = inbound.Host
        /\ hcalls.forward > 0 => Called("service")
        /\ Called("handler")
             => serviceProvider
                  = MapLookup(ServiceStore, inbound.Host, NilProvider).val)
  /\ [][(~Called("service") /\ Called("service")')
          => (req.Host = inbound.Host /\ hcalls.forward = 0)]_vars

\* C29 witness: two forwards have rewritten the request's host, and OriginalHost
\* is still the inbound host
C29_HostRewrittenTwice ==
  /\ hcalls.forward = 2
  /\ req.Host # inbound.Host
  /\ req.URL.Host = req.Host
  /\ pr.OriginalHost = inbound.Host

\* C30: getCanonicalRequest lists the signed header names, and the header lines,
\* in ascending order whatever order SignedHeaders= declares them in: the
\* canonical request of a request is that of the same request declaring the names
\* in ascending order.
C30_SignedHeadersSorted ==
  (codec.call = "canonical" /\ codec.done) =>
    LET parts == Split(codec.result, "\n")
        names == Split(parts[Len(parts) - 1], ";")
        lines == SubSeq(parts, 4, Len(parts) - 3)
        ascending == [codec.request EXCEPT
                        !.Header["authorization"] =
                           AuthorizationDeclaring(Split(codec.note, ";"))]
    IN /\ \A i, j \in DOMAIN names : i < j => StrLess(names[i], names[j])
       /\ Len(lines) = Len(names)
       /\ \A i \in DOMAIN names : HasPrefix(lines[i], names[i] \o ":")
       /\ parts[Len(parts) - 1] = codec.note
       /\ codec.result = getCanonicalRequest(ascending)

\* C30 witness: a request declaring x-amz-date;range;host has the canonical
\* names host;range;x-amz-date
C30_DescendingDeclared ==
  /\ codec.call = "canonical"
  /\ codec.done
  /\ Index(codec.request.Header["authorization"],
           "SignedHeaders=x-amz-date;range;host,") >= 0
  /\ Index(codec.result, "\nhost;range;x-amz-date\n") >= 0

\* the elements of a sequence
Elements(seq) == {seq[i] : i \in DOMAIN seq}

\* C31: for every Authorization header parseAuthHeader parses, the signed header
\* names getCanonicalRequest takes from the raw header are, as a set, the
\* SignedHeaders of the parsed header.
C31_ParserAndCanonicalAgree ==
  (codec.call = "signed headers" /\ codec.done /\ ~codec.result.parsed.panic)
    => Elements(codec.result.canonical)
         = Elements(codec.result.parsed.h.SignedHeaders)

\* the patterns of pathPatterns that match the path and whose iteration returns
\* for the method
ReturningPatterns(method, path) ==
  {o \in PathPatternOperations :
     PathPatternMatches(o, path) /\ PatternOperation(o, method, path) # ""}

\* C32: ExtractOperationName is deterministic: for a fixed method, path and query
\* it returns the same name for every iteration order of the pathPatterns map,
\* i.e. the name a request was given is the only name any order gives it.
C32_SameNameForEveryOrder ==
  classified.operation # "" =>
    ExtractOperationNames(classified.Method, classified.Path, classified.RawQuery)
      = {classified.operation}

\* C32 witness: GET /b%3F/k without a query was named; the object pattern and the
\* list pattern both match its path and both iterations return, so that the map
\* order decides which of them runs
C32_TwoPatternsReturn ==
  /\ classified.Method = "GET"
  /\ classified.Path = "/b?/k"
  /\ classified.RawQuery = ""
  /\ classified.operation = "GetObject"
  /\ {"GetObject", "ListObjects"} \subseteq ReturningPatterns("GET", "/b?/k")

\* the errors a pipe reader can be handed in place of a clean end
StreamErrors == {"read failed", ErrClosedPipe}

\* C33: a stream of cloneBody reports a clean end only after it has delivered every
\* byte of the body, the body having been read to its end without an error; a
\* stream that ends on less than the body ends in an error, and once a read of the
\* body has failed, or the write to a stream closed by its reader has, what a
\* reader is handed as the end of its stream is that error.
C33_NoCleanEndOnTruncation ==
  \A k \in {1, 2} :
    /\ readers[k].end = "EOF" =>
         /\ readers[k].data = orig.data
         /\ orig.pos = Len(orig.data)
         /\ copier.err = ""
    /\ (readers[k].end # "" /\ readers[k].data # orig.data)
         => readers[k].end \in StreamErrors
    /\ copier.err \in StreamErrors => readers[k].end \in {"", copier.err}
    /\ copier.err = ErrClosedPipe => pipes[1].rclosed \/ pipes[2].rclosed

\* C33 witness: the second stream was closed by its reader before the body had
\* been copied, and the reader of the first stream, having received a part of the
\* body, was handed io.ErrClosedPipe
C33_OtherClosedSeenAsError ==
  /\ pipes[2].rclosed
  /\ ~pipes[1].rclosed
  /\ orig.failAt = -1
  /\ readers[1].end = ErrClosedPipe
  /\ readers[1].data # ""
  /\ readers[1].data # orig.data

\* C34: when each of the two streams is read to its end or closed by its reader
\* (the body ending or failing after finitely many reads), the goroutine of
\* cloneBody, once started, terminates, with both pipe writers closed and the
\* original body closed.
C34_CopierTerminates ==
  (copier.pc # "none")
    ~> (/\ copier.pc = "done"
        /\ orig.closed
        /\ \A k \in {1, 2} : pipes[k].werr # "")

\* C34 witness: the goroutine has terminated with writers and body closed, after
\* the first stream of a body of MaxBody bytes was read to its end and the second
\* was closed by its reader without a single read
C34_OneDrainedOneClosed ==
  /\ copier.pc = "done"
  /\ orig.closed
  /\ \A k \in {1, 2} : pipes[k].werr # ""
  /\ Len(orig.data) = MaxBody
  /\ readers[1].end # ""
  /\ readers[1].data # ""
  /\ pipes[2].rclosed
  /\ readers[2].reads = 0

====
